---- MODULE Spec2Model ----
(***************************************************************************)
(* Model of infection.py: the per-frame epidemic kernel of the simulation. *)
(* The population is the ndarray of the source, one record per row; the    *)
(* columns the kernel reads or writes are the record's fields.  Random     *)
(* draws are nondeterministic choices over the outcomes the comparison in  *)
(* the source can have.  Probabilities and the recovery threshold are      *)
(* exact rationals <<numerator, denominator>>.                             *)
(***************************************************************************)
EXTENDS Integers, Sequences, FiniteSets

VARIABLES population, destinations, frame, config, last_call, mortality,
          strategy, raised

vars == <<population, destinations, frame, config, last_call, mortality,
          strategy, raised>>

-----------------------------------------------------------------------------
(* The state: the population array and the destinations array of the       *)
(* simulation, the frame and the arguments of the calls, and of the latest *)
(* call its name (last_call), the branch of infect it took (strategy), the *)
(* exception it raised (raised) and, for compute_mortality, its arguments  *)
(* and result (mortality).                                                 *)

(* Bounds of the model *)

\* number of rows of the population (pop_size)
PopSize == 4
\* the frames run from 0 to MaxFrame
MaxFrame == 2
\* ages run from 0 to MaxAge in the mortality specification
MaxAge == 7
\* the frames of the timing specification run from 0 to MaxTimingFrame
MaxTimingFrame == 9
\* the populations of the strategy specification have 3 to MaxStrategySize rows
MaxStrategySize == 5

-----------------------------------------------------------------------------
(* Column values of the source *)

Healthy == 0
Infected == 1
Recovered == 2
Dead == 3

Rows == 0 .. (PopSize - 1)

-----------------------------------------------------------------------------
(* Rationals <<n, d>> with d > 0 *)

RatLT(p, q) == p[1] * q[2] < q[1] * p[2]
RatLE(p, q) == p[1] * q[2] <= q[1] * p[2]
RatMul(p, q) == <<p[1] * q[1], p[2] * q[2]>>
Zero == <<0, 1>>
One == <<1, 1>>

\* the outcomes of `np.random.random() < p`, the draw being in [0, 1)
DrawLT(p) == {b \in BOOLEAN : IF b THEN RatLT(Zero, p) ELSE RatLT(p, One)}
\* the outcomes of `np.random.uniform() <= p`, the draw being in [0, 1)
DrawLE(p) == {b \in BOOLEAN : IF b THEN RatLE(Zero, p) ELSE RatLT(p, One)}

-----------------------------------------------------------------------------
(* Boolean-mask indexing: the rows of a mask that are true, in row order *)

RECURSIVE MaskedFrom(_, _, _)
MaskedFrom(mask, i, n) ==
    IF i >= n THEN <<>>
    ELSE (IF mask[i] THEN <<i>> ELSE <<>>) \o MaskedFrom(mask, i + 1, n)

\* population[mask]: a copy of the masked rows, as a sequence
Masked(pop, mask) ==
    LET rows == MaskedFrom(mask, 0, Cardinality(DOMAIN pop))
    IN  [k \in 1 .. Len(rows) |-> pop[rows[k]]]

\* len(population[population[:,10] == 1])
TreatedCount(pop) == Cardinality({i \in DOMAIN pop : pop[i].in_treatment = 1})

-----------------------------------------------------------------------------
(* motion.get_motion_parameters, the collaborator of go_to_location *)

get_motion_parameters(xmin, ymin, xmax, ymax) ==
    [x_center |-> xmin + ((xmax - xmin) \div 2),
     y_center |-> ymin + ((ymax - ymin) \div 2),
     x_wander |-> (xmax - xmin) \div 2,
     y_wander |-> (ymax - ymin) \div 2]

\* go_to_location as it would be if it also moved the patient to the centre
go_to_location_Moves(patient, destination, location_bounds, dest_no) ==
    LET m == get_motion_parameters(location_bounds[1], location_bounds[2],
                                   location_bounds[3], location_bounds[4])
    IN  [patient |-> [patient EXCEPT !.x = m.x_center, !.y = m.y_center,
                                     !.wander_x = m.x_wander,
                                     !.wander_y = m.y_wander,
                                     !.destination_index = dest_no],
         destination |-> [destination EXCEPT ![(dest_no - 1) * 2] = m.x_center,
                                             ![((dest_no - 1) * 2) + 1] = m.y_center]]

\* go_to_location: returns the patient row and the destination row
go_to_location(patient, destination, location_bounds, dest_no) ==
    LET m == get_motion_parameters(location_bounds[1], location_bounds[2],
                                   location_bounds[3], location_bounds[4])
    IN  [patient |-> [patient EXCEPT !.wander_x = m.x_wander,
                                     !.wander_y = m.y_wander,
                                     !.destination_index = dest_no],
         destination |-> [destination EXCEPT ![(dest_no - 1) * 2] = m.x_center,
                                             ![((dest_no - 1) * 2) + 1] = m.y_center]]

-----------------------------------------------------------------------------
(* infect *)

\* AdmissionGate as it would be with one more place than the test of the source
AdmissionGate_Slack(pop, healthcare_capacity) ==
    TreatedCount(pop) <= healthcare_capacity + 1

\* the admission test of lines 92 and 138
AdmissionGate(pop, healthcare_capacity) == TreatedCount(pop) <= healthcare_capacity

\* NewInfection as it would be with the routing of lines 94-101 and 140-147 one
\* level out, beside the admission test and not under it
NewInfection_RouteRefused(pd, idx, f, cfg, sparse) ==
    LET pop1 == [pd.population EXCEPT ![idx].state = Infected,
                                      ![idx].infection_frame = f]
        pop2 == IF AdmissionGate(pop1, cfg.healthcare_capacity)
                THEN [pop1 EXCEPT ![idx].in_treatment = 1]
                ELSE pop1
        sent == go_to_location(pop2[idx], pd.destinations[idx],
                               cfg.location_bounds, cfg.location_no)
        routed == [population |-> [pop2 EXCEPT ![idx] = sent.patient],
                   destinations |-> [pd.destinations EXCEPT ![idx] = sent.destination]]
        stays == [population |-> pop2, destinations |-> pd.destinations]
    IN  IF cfg.send_to_location
        THEN {IF go THEN routed ELSE stays :
                 go \in (IF sparse THEN DrawLE(cfg.location_odds)
                                   ELSE DrawLT(cfg.location_odds))}
        ELSE {stays}

\* lines 90-101 (sparse, route draw `<=`) and 136-147 (dense, route draw `<`):
\* what a successful infection draw does to row idx; the set of outcomes
NewInfection(pd, idx, f, cfg, sparse) ==
    LET pop1 == [pd.population EXCEPT ![idx].state = Infected,
                                      ![idx].infection_frame = f]
    IN  IF AdmissionGate(pop1, cfg.healthcare_capacity)
        THEN LET pop2 == [pop1 EXCEPT ![idx].in_treatment = 1]
                 sent == go_to_location(pop2[idx], pd.destinations[idx],
                                        cfg.location_bounds, cfg.location_no)
                 routed == [population |-> [pop2 EXCEPT ![idx] = sent.patient],
                            destinations |-> [pd.destinations EXCEPT ![idx] = sent.destination]]
                 stays == [population |-> pop2, destinations |-> pd.destinations]
             IN  IF cfg.send_to_location
                 THEN {IF go THEN routed ELSE stays :
                          go \in (IF sparse THEN DrawLE(cfg.location_odds)
                                            ELSE DrawLT(cfg.location_odds))}
                 ELSE {stays}
        ELSE {[population |-> pop1, destinations |-> pd.destinations]}

\* lines 87-104: one draw for each index found around the patient
RECURSIVE SparseTrials(_, _, _, _)
SparseTrials(pd, indices, f, cfg) ==
    IF indices = <<>> THEN {pd}
    ELSE LET idx == Head(indices)
             after == UNION {IF hit THEN NewInfection(pd, idx, f, cfg, TRUE) ELSE {pd} :
                                hit \in DrawLT(cfg.infection_chance)}
         IN  UNION {SparseTrials(o, Tail(indices), f, cfg) : o \in after}

\* SparseIndices as it would be without the test population[:,6] == 0
SparseIndices_AnyState(pop, patient, cfg) ==
    LET zone == <<patient.x - cfg.infection_range, patient.y - cfg.infection_range,
                  patient.x + cfg.infection_range, patient.y + cfg.infection_range>>
        mask == [i \in DOMAIN pop |-> /\ zone[1] < pop[i].x
                                /\ pop[i].x < zone[3]
                                /\ zone[2] < pop[i].y
                                /\ pop[i].y < zone[4]]
        found == Masked(pop, mask)
    IN  IF cfg.traveling_infects \/ patient.destination_index = 0
        THEN [k \in 1 .. Len(found) |-> found[k].id]
        ELSE <<>>

\* SparseIndices as it would be with <= in the zone test
SparseIndices_Inclusive(pop, patient, cfg) ==
    LET zone == <<patient.x - cfg.infection_range, patient.y - cfg.infection_range,
                  patient.x + cfg.infection_range, patient.y + cfg.infection_range>>
        mask == [i \in DOMAIN pop |-> /\ zone[1] <= pop[i].x
                                      /\ pop[i].x <= zone[3]
                                      /\ zone[2] <= pop[i].y
                                      /\ pop[i].y <= zone[4]
                                      /\ pop[i].state = Healthy]
        found == Masked(pop, mask)
    IN  IF cfg.traveling_infects \/ patient.destination_index = 0
        THEN [k \in 1 .. Len(found) |-> found[k].id]
        ELSE <<>>

\* lines 74-85: the ids of the healthy rows inside the patient's zone
SparseIndices(pop, patient, cfg) ==
    LET zone == <<patient.x - cfg.infection_range, patient.y - cfg.infection_range,
                  patient.x + cfg.infection_range, patient.y + cfg.infection_range>>
        mask == [i \in DOMAIN pop |-> /\ zone[1] < pop[i].x
                                /\ pop[i].x < zone[3]
                                /\ zone[2] < pop[i].y
                                /\ pop[i].y < zone[4]
                                /\ pop[i].state = Healthy]
        found == Masked(pop, mask)
    IN  IF cfg.traveling_infects \/ patient.destination_index = 0
        THEN [k \in 1 .. Len(found) |-> found[k].id]
        ELSE <<>>

\* lines 72-104: the loop over the rows infected at entry
RECURSIVE SparseLoop(_, _, _, _)
SparseLoop(pd, patients, f, cfg) ==
    IF patients = <<>> THEN {pd}
    ELSE LET indices == SparseIndices(pd.population, Head(patients), cfg)
             after == SparseTrials(pd, indices, f, cfg)
         IN  UNION {SparseLoop(o, Tail(patients), f, cfg) : o \in after}

\* DensePoplen as it would be if both branches tested the destination
DensePoplen_NoTravel(sick_previous_step, person, cfg) ==
    LET zone == <<person.x - cfg.infection_range, person.y - cfg.infection_range,
                  person.x + cfg.infection_range, person.y + cfg.infection_range>>
    IN  Cardinality({k \in 1 .. Len(sick_previous_step) :
            /\ zone[1] < sick_previous_step[k].x
            /\ sick_previous_step[k].x < zone[3]
            /\ zone[2] < sick_previous_step[k].y
            /\ sick_previous_step[k].y < zone[4]
            /\ sick_previous_step[k].state = Infected
            /\ sick_previous_step[k].destination_index = 0})

\* lines 114-131: the number of the rows sick at entry inside the person's zone
DensePoplen(sick_previous_step, person, cfg) ==
    LET zone == <<person.x - cfg.infection_range, person.y - cfg.infection_range,
                  person.x + cfg.infection_range, person.y + cfg.infection_range>>
    IN  Cardinality({k \in 1 .. Len(sick_previous_step) :
            /\ zone[1] < sick_previous_step[k].x
            /\ sick_previous_step[k].x < zone[3]
            /\ zone[2] < sick_previous_step[k].y
            /\ sick_previous_step[k].y < zone[4]
            /\ sick_previous_step[k].state = Infected
            /\ (cfg.traveling_infects \/ sick_previous_step[k].destination_index = 0)})

\* DenseChance as it would be with the draw of line 134 against infection_chance
DenseChance_Unscaled(infection_chance, poplen) == infection_chance

\* line 134: infection_chance * poplen
DenseChance(infection_chance, poplen) ==
    <<infection_chance[1] * poplen, infection_chance[2]>>

\* lines 112-150: the loop over the rows healthy at entry
RECURSIVE DenseLoop(_, _, _, _, _)
DenseLoop(pd, healthy_previous_step, sick_previous_step, f, cfg) ==
    IF healthy_previous_step = <<>> THEN {pd}
    ELSE LET person == Head(healthy_previous_step)
             poplen == DensePoplen(sick_previous_step, person, cfg)
             scaled == DenseChance(cfg.infection_chance, poplen)
             after == IF person.state = Healthy /\ poplen > 0
                      THEN UNION {IF hit THEN NewInfection(pd, person.id, f, cfg, FALSE)
                                         ELSE {pd} : hit \in DrawLT(scaled)}
                      ELSE {pd}
         IN  UNION {DenseLoop(o, Tail(healthy_previous_step), sick_previous_step, f, cfg) :
                       o \in after}

\* line 71: whether the sparse strategy runs
SliceOnInfected(n_infected, pop_size) == n_infected < (pop_size \div 2)

\* lines 66-71 and 106: the branch an infect call takes
StrategyOf(pop, pop_size) ==
    LET infected_previous_step == Masked(pop, [i \in DOMAIN pop |-> pop[i].state = Infected])
    IN  IF SliceOnInfected(Len(infected_previous_step), pop_size) THEN "sparse" ELSE "dense"

\* infect: the set of (population, destinations) the call can return
infect(pop, dest, pop_size, f, cfg) ==
    LET infected_previous_step == Masked(pop, [i \in DOMAIN pop |-> pop[i].state = Infected])
        pd == [population |-> pop, destinations |-> dest]
    IN  IF SliceOnInfected(Len(infected_previous_step), pop_size)
        THEN SparseLoop(pd, infected_previous_step, f, cfg)
        ELSE DenseLoop(pd,
                       Masked(pop, [i \in DOMAIN pop |-> pop[i].state = Healthy]),
                       Masked(pop, [i \in DOMAIN pop |-> pop[i].state = Infected]),
                       f, cfg)

-----------------------------------------------------------------------------
(* Mortality values.  A value is coef * base^15 with coef and base rational, *)
(* or NaN: the quadratic curve is a 15th power, and a base mortality chance  *)
(* of the form critical_mortality_chance * A^15 has the rational root A.     *)

RatNorm(p) == IF p[2] < 0 THEN <<-p[1], -p[2]>> ELSE p
RatSub(p, q) == <<(p[1] * q[2]) - (q[1] * p[2]), p[2] * q[2]>>
RatDiv(p, q) == RatNorm(<<p[1] * q[2], p[2] * q[1]>>)
RatEq(p, q) == p[1] * q[2] = q[1] * p[2]
RatInt(k) == <<k, 1>>

Val(coef, base) == [nan |-> FALSE, coef |-> coef, base |-> base]
Plain(coef) == Val(coef, One)
NaN == [nan |-> TRUE, coef |-> Zero, base |-> One]

RECURSIVE IntPow(_, _)
IntPow(k, e) == IF e = 0 THEN 1 ELSE k * IntPow(k, e - 1)

\* the exponent of the quadratic curve (pw)
pw == 15

\* the value as one rational
ValRat(v) == <<v.coef[1] * IntPow(v.base[1], pw), v.coef[2] * IntPow(v.base[2], pw)>>

\* the sign of a value that is not NaN: the power is odd
RatSign(p) == IF p[1] > 0 THEN 1 ELSE IF p[1] < 0 THEN -1 ELSE 0
ValSign(v) == RatSign(v.coef) * RatSign(v.base)

\* v <= w as floats compare: false when either is NaN
ValLE(v, w) ==
    IF v.nan \/ w.nan THEN FALSE
    ELSE IF ValSign(v) = 0 \/ ValSign(w) = 0 \/ ValSign(v) # ValSign(w)
         THEN ValSign(v) <= ValSign(w)
    ELSE IF RatEq(v.base, w.base)
         THEN IF RatLT(Zero, v.base) THEN RatLE(v.coef, w.coef)
              ELSE RatLE(w.coef, v.coef)
    ELSE IF RatEq(v.coef, w.coef)
         THEN IF RatLT(Zero, v.coef) THEN RatLE(v.base, w.base)
              ELSE RatLE(w.base, v.base)
    ELSE RatLE(ValRat(v), ValRat(w))

\* v == w as floats compare
ValEq(v, w) == ValLE(v, w) /\ ValLE(w, v)

\* v * factor, factor rational
ValScale(v, factor) == IF v.nan THEN v ELSE [v EXCEPT !.coef = RatMul(v.coef, factor)]

\* the outcomes of `np.random.random() <= v`, the draw being in [0, 1)
ValDrawLE(v) ==
    {b \in BOOLEAN : IF b THEN ValLE(Plain(Zero), v)
                          ELSE ~v.nan => ~ValLE(Plain(One), v)}

\* line 313: A = exp(log(mortality_chance / critical_mortality_chance) / pw),
\* the 15th root of the quotient; rational for the values of this model
Root15(mortality_chance, critical_mortality_chance) ==
    CASE RatEq(mortality_chance.coef, Zero) \/ RatEq(mortality_chance.base, Zero) -> Zero
      [] RatEq(mortality_chance.coef, critical_mortality_chance.coef) ->
            RatDiv(mortality_chance.base, critical_mortality_chance.base)

\* lines 310-321: the quadratic branch
QuadraticRisk(age, mortality_chance, risk_age, critical_age, critical_mortality_chance) ==
    LET A == Root15(mortality_chance, critical_mortality_chance)
        \* x = np.linspace(0, critical_age, critical_age)[age - 1]
        x == <<(age - 1) * critical_age, critical_age - 1>>
        \* (x + a) and ((risk_age - 1) + a), both times (A - 1)
        xa == RatSub(RatSub(RatMul(x, RatSub(A, One)), RatMul(RatInt(critical_age), A)),
                     RatInt(1 - risk_age))
        ra == RatMul(A, RatInt((risk_age - 1) - critical_age))
    IN  IF RatEq(A, One) \/ RatEq(A, Zero) \/ RatEq(ra, Zero)
        THEN NaN  \* a division by zero on line 314 or 315
        ELSE Val(mortality_chance.coef, RatMul(mortality_chance.base, RatDiv(xa, ra)))

\* lines 305-309: the linear branch
LinearRisk(age, risk_age, critical_age, critical_mortality_chance) ==
    LET step_increase == ValScale(critical_mortality_chance,
                                  <<1, (critical_age - risk_age) + 1>>)
    IN  [critical_mortality_chance EXCEPT
            !.coef = RatSub(critical_mortality_chance.coef,
                            RatMul(RatInt(critical_age - age), step_increase.coef))]

\* compute_mortality as it would be with risk_age <= age on line 304
compute_mortality_Inclusive(age, mortality_chance, risk_age, critical_age, critical_mortality_chance, risk_increase) ==
    IF risk_age <= age /\ age < critical_age
    THEN IF risk_increase = "linear"
         THEN LinearRisk(age, risk_age, critical_age, critical_mortality_chance)
         ELSE QuadraticRisk(age, mortality_chance, risk_age, critical_age,
                            critical_mortality_chance)
    ELSE IF age <= risk_age THEN mortality_chance
    ELSE critical_mortality_chance

compute_mortality(age, mortality_chance, risk_age, critical_age, critical_mortality_chance, risk_increase) ==
    IF risk_age < age /\ age < critical_age
    THEN IF risk_increase = "linear"
         THEN LinearRisk(age, risk_age, critical_age, critical_mortality_chance)
         ELSE QuadraticRisk(age, mortality_chance, risk_age, critical_age,
                            critical_mortality_chance)
    ELSE IF age <= risk_age THEN mortality_chance
    ELSE critical_mortality_chance

-----------------------------------------------------------------------------
(* recover_or_die *)

\* np.ptp(recovery_duration)
Ptp(recovery_duration) ==
    IF recovery_duration[1] < recovery_duration[2]
    THEN recovery_duration[2] - recovery_duration[1]
    ELSE recovery_duration[1] - recovery_duration[2]

\* RecoveryOdds as it would be with the division by recovery_duration[1], the
\* maximum, in place of np.ptp(recovery_duration)
RecoveryOdds_OverMax(person, f, recovery_duration) ==
    LET illness_duration == f - person.infection_frame
        num == illness_duration - recovery_duration[1]
    IN  <<IF num < 0 THEN 0 ELSE num, recovery_duration[2]>>

\* RecoveryOdds as it would be without the subtraction of recovery_duration[0]
RecoveryOdds_NoMin(person, f, recovery_duration) ==
    LET illness_duration == f - person.infection_frame
    IN  <<IF illness_duration < 0 THEN 0 ELSE illness_duration, Ptp(recovery_duration)>>

\* lines 215-218: the progress of one sick row, floored at 0
RecoveryOdds(person, f, recovery_duration) ==
    LET illness_duration == f - person.infection_frame
        num == illness_duration - recovery_duration[1]
    IN  <<IF num < 0 THEN 0 ELSE num, Ptp(recovery_duration)>>

\* line 221: the ids of the sick rows whose progress reached their threshold
ResolvingIndices(sick_people, f, recovery_duration) ==
    LET mask == [k \in 0 .. (Len(sick_people) - 1) |->
                    RatLE(sick_people[k + 1].recovery_threshold,
                          RecoveryOdds(sick_people[k + 1], f, recovery_duration))]
        rows == MaskedFrom(mask, 0, Len(sick_people))
    IN  [j \in 1 .. Len(rows) |-> sick_people[rows[j] + 1].id]

\* lines 230-244: the mortality chance of the sick row with id idx
UpdatedMortalityChance(sick_people, idx, m) ==
    LET hit == CHOOSE k \in 1 .. Len(sick_people) :
                  /\ sick_people[k].id = idx
                  /\ \A j \in 1 .. (k - 1) : sick_people[j].id # idx
        base == IF m.age_dependent_risk
                THEN compute_mortality(sick_people[hit].age, m.mortality_chance,
                                       m.risk_age, m.critical_age,
                                       m.critical_mortality_chance, m.risk_increase)
                ELSE m.mortality_chance
    IN  IF sick_people[hit].in_treatment = 0 /\ m.treatment_dependent_risk
        THEN ValScale(base, m.no_treatment_factor)
        ELSE IF sick_people[hit].in_treatment = 1 /\ m.treatment_dependent_risk
        THEN ValScale(base, m.treatment_factor)
        ELSE base

\* Resolve as it would be if resolving also released the agent from its location
Resolve_ClearDestination(sick_people, idx, outcome) ==
    [k \in 1 .. Len(sick_people) |->
        IF sick_people[k].id = idx
        THEN [sick_people[k] EXCEPT !.state = outcome, !.in_treatment = 0,
                                    !.destination_index = 0]
        ELSE sick_people[k]]

\* Resolve as it would be with the writes of lines 248-249 and 253-254 not
\* masked by the id: every row of sick_people is written
Resolve_AllSick(sick_people, idx, outcome) ==
    [k \in 1 .. Len(sick_people) |->
        [sick_people[k] EXCEPT !.state = outcome, !.in_treatment = 0]]

\* Resolve as it would be without lines 249 and 254
Resolve_KeepTreatment(sick_people, idx, outcome) ==
    [k \in 1 .. Len(sick_people) |->
        IF sick_people[k].id = idx
        THEN [sick_people[k] EXCEPT !.state = outcome]
        ELSE sick_people[k]]

\* lines 248-249 and 253-254: the writes to the rows of sick_people with id idx
Resolve(sick_people, idx, outcome) ==
    [k \in 1 .. Len(sick_people) |->
        IF sick_people[k].id = idx
        THEN [sick_people[k] EXCEPT !.state = outcome, !.in_treatment = 0]
        ELSE sick_people[k]]

\* lines 227-255: the loop over the resolving ids
RECURSIVE ResolveLoop(_, _, _)
ResolveLoop(sick_people, indices, m) ==
    IF indices = <<>> THEN {sick_people}
    ELSE LET idx == Head(indices)
             after == {Resolve(sick_people, idx, IF dies THEN Dead ELSE Recovered) :
                          dies \in ValDrawLE(UpdatedMortalityChance(sick_people, idx, m))}
         IN  UNION {ResolveLoop(o, Tail(indices), m) : o \in after}

\* WriteBack as it would be with population[:len(sick_people)] = sick_people
WriteBack_FirstRows(pop, sick_people) ==
    [i \in Rows |-> IF i < Len(sick_people) THEN sick_people[i + 1] ELSE pop[i]]

\* line 263: population[population[:,6] == 1] = sick_people
WriteBack(pop, sick_people) ==
    LET rows == MaskedFrom([i \in Rows |-> pop[i].state = Infected], 0, PopSize)
    IN  [i \in Rows |->
            IF \E k \in 1 .. Len(rows) : rows[k] = i
            THEN sick_people[CHOOSE k \in 1 .. Len(rows) : rows[k] = i]
            ELSE pop[i]]

\* recover_or_die: the set of populations the call can return
recover_or_die(pop, f, recovery_duration, m) ==
    LET sick_people == Masked(pop, [i \in Rows |-> pop[i].state = Infected])
        indices == ResolvingIndices(sick_people, f, recovery_duration)
    IN  {WriteBack(pop, after) : after \in ResolveLoop(sick_people, indices, m)}

-----------------------------------------------------------------------------
(* healthcare_infection_correction: what the call returns, or raises *)

\* line 350: worker_population[:,6][worker_population[:,6] == 1], a copy of the
\* state column of the sick workers; one dimension
SickWorkers(worker_population) ==
    LET sick == Masked(worker_population,
                       [i \in DOMAIN worker_population |->
                           worker_population[i].state = Infected])
    IN  [k \in 1 .. Len(sick) |-> sick[k].state]

\* the number of dimensions of an array of this model: a sequence of records is
\* the two-dimensional population, a sequence of numbers is one column
Ndim(array) == IF \A k \in DOMAIN array : array[k] \in Int THEN 1 ELSE 2

\* healthcare_infection_correction as it would be if the branch of line 353 made
\* the first healthy worker sick
healthcare_infection_correction_MakesSick(worker_population, healthcare_risk_factor) ==
    IF RatLT(healthcare_risk_factor, Zero)
    THEN [raised |-> "IndexError", worker_population |-> worker_population]
    ELSE IF RatLT(Zero, healthcare_risk_factor)
            /\ \E i \in DOMAIN worker_population : worker_population[i].state = Healthy
    THEN LET i == CHOOSE i \in DOMAIN worker_population :
                     /\ worker_population[i].state = Healthy
                     /\ \A j \in DOMAIN worker_population :
                           worker_population[j].state = Healthy => i <= j
         IN  [raised |-> "none",
              worker_population |-> [worker_population EXCEPT ![i].state = Infected]]
    ELSE [raised |-> "none", worker_population |-> worker_population]

\* lines 348-359.  With a factor below 0, line 352 indexes sick_workers, which
\* has one dimension, with [:,6]: numpy raises IndexError before anything is
\* written, whatever the draw of line 351 and however many workers are sick.
healthcare_infection_correction(worker_population, healthcare_risk_factor) ==
    IF RatLT(healthcare_risk_factor, Zero)
    THEN IF Ndim(SickWorkers(worker_population)) < 2
         THEN [raised |-> "IndexError", worker_population |-> worker_population]
         ELSE [raised |-> "none", worker_population |-> worker_population]
    ELSE [raised |-> "none", worker_population |-> worker_population]

-----------------------------------------------------------------------------
(* The inputs of the model *)

\* infection_range
InfectionRanges == {1, 2}
\* infection_chance
InfectionChances == {<<1, 2>>, <<1, 1>>}
\* healthcare_capacity
Capacities == {0, PopSize}
\* <<send_to_location, location_odds, traveling_infects>>; traveling_infects is
\* read only of rows with a destination, which only send_to_location gives
SendModes == {<<FALSE, One, FALSE>>, <<TRUE, One, FALSE>>, <<TRUE, <<1, 2>>, TRUE>>}
\* the rows stand at x = id * spacing, y = id % 2
Spacings == {0, 1}
\* recovery_threshold, supplied with the population: row 0 has 0.0, the others 0.5
ThresholdOf(i) == IF i = 0 THEN <<0, 10>> ELSE <<5, 10>>
\* location_bounds and location_no of the quarantine location
LocationBounds == <<4, 4, 6, 6>>
LocationNo == 1

Configs(recovery_durations) ==
    {[infection_range |-> r, infection_chance |-> c, healthcare_capacity |-> h,
      send_to_location |-> s[1], location_odds |-> s[2],
      location_bounds |-> LocationBounds, location_no |-> LocationNo,
      traveling_infects |-> s[3], recovery_duration |-> d] :
        r \in InfectionRanges, c \in InfectionChances, h \in Capacities,
        s \in SendModes, d \in recovery_durations}

\* the arguments of recover_or_die that decide between death and recovery
MortalityConfigs ==
    {[mortality_chance |-> Plain(<<1, 10>>), risk_age |-> 1, critical_age |-> 4,
      critical_mortality_chance |-> Plain(<<1, 2>>), risk_increase |-> "linear",
      no_treatment_factor |-> <<3, 1>>, treatment_factor |-> <<1, 2>>,
      age_dependent_risk |-> a, treatment_dependent_risk |-> a] : a \in BOOLEAN}
    \cup
    {[mortality_chance |-> Val(One, <<1, 2>>), risk_age |-> 1, critical_age |-> 4,
      critical_mortality_chance |-> Plain(One), risk_increase |-> "quadratic",
      no_treatment_factor |-> One, treatment_factor |-> One,
      age_dependent_risk |-> TRUE, treatment_dependent_risk |-> FALSE]}

\* a row as the outer system creates it: not in treatment, no destination
NewAgent(i, spacing, sick, threshold) ==
    [id |-> i, x |-> i * spacing, y |-> i % 2,
     state |-> IF sick THEN Infected ELSE Healthy,
     age |-> 2 * i, infection_frame |-> 0, recovery_threshold |-> threshold,
     in_treatment |-> 0, destination_index |-> 0, wander_x |-> 0, wander_y |-> 0]

\* the rows the outer system seeds as Infected before the first frame
SickAtStart == {{0}, {1}, {0, 1}}

Populations ==
    {[i \in Rows |-> NewAgent(i, spacing, i \in sick, ThresholdOf(i))] :
        spacing \in Spacings, sick \in SickAtStart}

NoCall == [age |-> 0, mortality_chance |-> NaN, risk_age |-> 0, critical_age |-> 0,
           critical_mortality_chance |-> NaN, risk_increase |-> "none", risk |-> NaN]

-----------------------------------------------------------------------------
(* The kernel under its outer loop: calls of infect and recover_or_die, each *)
(* at the frame of the call before it or at the next one                     *)

Init ==
    /\ population \in Populations
    /\ destinations = [i \in Rows |-> [j \in 0 .. ((2 * LocationNo) - 1) |-> 0]]
    /\ frame = 0
    /\ config \in Configs({<<1, 3>>})
    /\ last_call = "none"
    /\ mortality = NoCall
    /\ strategy = "none"
    /\ raised = "none"

Infect ==
    \E f \in {frame, frame + 1} :
        /\ f <= MaxFrame
        /\ \E out \in infect(population, destinations, PopSize, f, config) :
              /\ population' = out.population
              /\ destinations' = out.destinations
        /\ frame' = f
        /\ last_call' = "infect"
        /\ strategy' = StrategyOf(population, PopSize)
        /\ raised' = "none"
        /\ UNCHANGED <<config, mortality>>

RecoverOrDie ==
    \E f \in {frame, frame + 1} :
        /\ f <= MaxFrame
        /\ population' \in UNION {recover_or_die(population, f, config.recovery_duration, m) :
                                      m \in MortalityConfigs}
        /\ frame' = f
        /\ last_call' = "recover_or_die"
        /\ strategy' = "none"
        /\ raised' = "none"
        /\ UNCHANGED <<destinations, config, mortality>>

Next == Infect \/ RecoverOrDie

Spec == Init /\ [][Next]_vars

-----------------------------------------------------------------------------
(* The outer loop frame by frame, with recovery_duration = (5, 10): at every *)
(* frame one call of infect, then one call of recover_or_die                 *)

TimingConfig ==
    [infection_range |-> 2, infection_chance |-> <<1, 2>>, healthcare_capacity |-> PopSize,
     send_to_location |-> FALSE, location_odds |-> One,
     location_bounds |-> LocationBounds, location_no |-> LocationNo,
     traveling_infects |-> FALSE, recovery_duration |-> <<5, 10>>]

InitTiming ==
    /\ population \in Populations
    /\ destinations = [i \in Rows |-> [j \in 0 .. ((2 * LocationNo) - 1) |-> 0]]
    /\ frame = 0
    /\ config = TimingConfig
    /\ last_call = "none"
    /\ mortality = NoCall
    /\ strategy = "none"
    /\ raised = "none"

FrameInfect ==
    /\ last_call # "infect"
    /\ LET f == IF last_call = "none" THEN 0 ELSE frame + 1
       IN  /\ f <= MaxTimingFrame
           /\ \E out \in infect(population, destinations, PopSize, f, config) :
                 /\ population' = out.population
                 /\ destinations' = out.destinations
           /\ frame' = f
    /\ last_call' = "infect"
    /\ strategy' = StrategyOf(population, PopSize)
    /\ raised' = "none"
    /\ UNCHANGED <<config, mortality>>

FrameRecoverOrDie ==
    /\ last_call = "infect"
    /\ population' \in UNION {recover_or_die(population, frame, config.recovery_duration, m) :
                                  m \in MortalityConfigs}
    /\ last_call' = "recover_or_die"
    /\ strategy' = "none"
    /\ raised' = "none"
    /\ UNCHANGED <<destinations, frame, config, mortality>>

NextTiming == FrameInfect \/ FrameRecoverOrDie

SpecTiming == InitTiming /\ [][NextTiming]_vars

-----------------------------------------------------------------------------
(* compute_mortality on its own, applied to inputs from bounded sets *)

CriticalChances == {Plain(<<1, 2>>), Plain(One)}
LinearChances == {Plain(Zero), Plain(<<1, 10>>), Plain(<<1, 2>>), Plain(One)}
\* mortality_chance = critical_mortality_chance * A^15
QuadraticRoots == {<<1, 2>>, <<2, 3>>, One}

MortalityInputs ==
    {[age |-> a, mortality_chance |-> mc, risk_age |-> r, critical_age |-> c,
      critical_mortality_chance |-> cmc, risk_increase |-> "linear"] :
        a \in 0 .. MaxAge, r \in 0 .. MaxAge, c \in 0 .. MaxAge,
        mc \in LinearChances, cmc \in CriticalChances}
    \cup
    {[age |-> a, mortality_chance |-> mc, risk_age |-> r, critical_age |-> c[1],
      critical_mortality_chance |-> c[2], risk_increase |-> "quadratic"] :
        a \in 0 .. MaxAge, r \in 0 .. MaxAge,
        c \in (0 .. MaxAge) \X CriticalChances,
        mc \in {Plain(Zero)} \cup {Val(cmc.coef, A) : cmc \in CriticalChances, A \in QuadraticRoots}}

InitRisk ==
    /\ population = [i \in Rows |-> NewAgent(i, 0, FALSE, ThresholdOf(i))]
    /\ destinations = [i \in Rows |-> [j \in 0 .. ((2 * LocationNo) - 1) |-> 0]]
    /\ frame = 0
    /\ config = TimingConfig
    /\ last_call = "none"
    /\ mortality = NoCall
    /\ strategy = "none"
    /\ raised = "none"

ComputeMortality ==
    /\ last_call = "none"
    /\ \E in \in MortalityInputs :
          /\ in.risk_age < in.critical_age
          /\ in.risk_increase = "quadratic" =>
                \/ in.mortality_chance = Plain(Zero)
                \/ in.mortality_chance.coef = in.critical_mortality_chance.coef
          /\ mortality' = [age |-> in.age, mortality_chance |-> in.mortality_chance,
                           risk_age |-> in.risk_age, critical_age |-> in.critical_age,
                           critical_mortality_chance |-> in.critical_mortality_chance,
                           risk_increase |-> in.risk_increase,
                           risk |-> compute_mortality(in.age, in.mortality_chance,
                                                      in.risk_age, in.critical_age,
                                                      in.critical_mortality_chance,
                                                      in.risk_increase)]
    /\ last_call' = "compute_mortality"
    /\ strategy' = "none"
    /\ raised' = "none"
    /\ UNCHANGED <<population, destinations, frame, config>>

NextRisk == ComputeMortality

SpecRisk == InitRisk /\ [][NextRisk]_vars

-----------------------------------------------------------------------------
(* healthcare_infection_correction on its own, on a worker sub-population; an *)
(* exception ends the run                                                      *)

\* healthcare_risk_factor
RiskFactors == {<<-1, 1>>, <<-1, 2>>, Zero, <<1, 5>>, <<2, 1>>}

\* the state column of the workers
WorkerStates == [Rows -> {Healthy, Infected, Recovered, Dead}]

WorkerPopulations ==
    {[i \in Rows |-> [NewAgent(i, 1, FALSE, ThresholdOf(i)) EXCEPT !.state = st[i]]] :
        st \in WorkerStates}

InitWorkers ==
    /\ population \in WorkerPopulations
    /\ destinations = [i \in Rows |-> [j \in 0 .. ((2 * LocationNo) - 1) |-> 0]]
    /\ frame = 0
    /\ config = [healthcare_risk_factor |-> <<1, 5>>]
    /\ last_call = "none"
    /\ mortality = NoCall
    /\ strategy = "none"
    /\ raised = "none"

HealthcareInfectionCorrection ==
    /\ raised = "none"
    /\ \E factor \in RiskFactors :
          LET out == healthcare_infection_correction(population, factor)
          IN  /\ population' = out.worker_population
              /\ raised' = out.raised
              /\ config' = [healthcare_risk_factor |-> factor]
    /\ last_call' = "healthcare_infection_correction"
    /\ strategy' = "none"
    /\ UNCHANGED <<destinations, frame, mortality>>

NextWorkers == HealthcareInfectionCorrection

SpecWorkers == InitWorkers /\ [][NextWorkers]_vars

-----------------------------------------------------------------------------
(* infect on populations of several sizes, odd ones among them; pop_size is *)
(* the number of rows of the population                                     *)

StrategySizes == 3 .. MaxStrategySize

\* every row within range of every other; at least one row Infected
StrategyPopulations ==
    UNION {{[i \in 0 .. (n - 1) |-> NewAgent(i, 0, i \in sick, ThresholdOf(i))] :
               sick \in (SUBSET (0 .. (n - 1))) \ {{}}} : n \in StrategySizes}

InitStrategy ==
    /\ population \in StrategyPopulations
    /\ destinations = [i \in DOMAIN population |-> [j \in 0 .. ((2 * LocationNo) - 1) |-> 0]]
    /\ frame = 0
    /\ config = TimingConfig
    /\ last_call = "none"
    /\ mortality = NoCall
    /\ strategy = "none"
    /\ raised = "none"

InfectSized ==
    \E f \in {frame, frame + 1} :
        /\ f <= MaxFrame
        /\ \E out \in infect(population, destinations, Cardinality(DOMAIN population),
                              f, config) :
              /\ population' = out.population
              /\ destinations' = out.destinations
        /\ frame' = f
        /\ last_call' = "infect"
        /\ strategy' = StrategyOf(population, Cardinality(DOMAIN population))
        /\ raised' = "none"
        /\ UNCHANGED <<config, mortality>>

NextStrategy == InfectSized

SpecStrategy == InitStrategy /\ [][NextStrategy]_vars

-----------------------------------------------------------------------------
(* The outer loop frame by frame, with recovery_duration = (1, 3) and       *)
(* recovery thresholds close to 1                                           *)

\* recovery_threshold: row 0 has 0.0, the others 0.9
LateThresholdOf(i) == IF i = 0 THEN <<0, 10>> ELSE <<9, 10>>

ResolutionPopulations ==
    {[i \in Rows |-> NewAgent(i, spacing, i \in sick, LateThresholdOf(i))] :
        spacing \in Spacings, sick \in SickAtStart}

InitResolution ==
    /\ population \in ResolutionPopulations
    /\ destinations = [i \in Rows |-> [j \in 0 .. ((2 * LocationNo) - 1) |-> 0]]
    /\ frame = 0
    /\ config = [TimingConfig EXCEPT !.recovery_duration = <<1, 3>>]
    /\ last_call = "none"
    /\ mortality = NoCall
    /\ strategy = "none"
    /\ raised = "none"

SpecResolution == InitResolution /\ [][NextTiming]_vars

-----------------------------------------------------------------------------
(* Properties *)

InfectStep == last_call' = "infect"
RecoverStep == last_call' = "recover_or_die"
Resolved(st) == st \in {Recovered, Dead}

\* row j is infectious for row i at the entry of an infect call: Infected, with no
\* active destination unless traveling_infects, and strictly inside i's box
Abs(k) == IF k < 0 THEN -k ELSE k
EligibleSource(pop, j, i) ==
    /\ pop[j].state = Infected
    /\ (pop[j].destination_index = 0 \/ config.traveling_infects)
    /\ Abs(pop[j].x - pop[i].x) < config.infection_range
    /\ Abs(pop[j].y - pop[i].y) < config.infection_range

\* progress >= threshold, progress = max(0, (f - infection_frame - min) / (max - min))
ProgressReached(person, f) ==
    LET num == (f - person.infection_frame) - config.recovery_duration[1]
        den == config.recovery_duration[2] - config.recovery_duration[1]
    IN  (IF num < 0 THEN 0 ELSE num) * person.recovery_threshold[2]
            >= person.recovery_threshold[1] * den

\* C1: an infect call that starts with at most healthcare_capacity agents in
\* treatment ends with at most healthcare_capacity agents in treatment.
C1_CapacityInvariant ==
    [][(InfectStep /\ TreatedCount(population) <= config.healthcare_capacity)
          => TreatedCount(population') <= config.healthcare_capacity]_vars

\* C2: with healthcare_capacity = 0 and nobody in treatment, every agent an infect
\* call newly infects ends Infected with in_treatment still false.
C2_NoSpuriousAdmission ==
    [][(InfectStep /\ config.healthcare_capacity = 0 /\ TreatedCount(population) = 0)
          => \A i \in Rows :
                (population[i].state = Healthy /\ population'[i].state # Healthy)
                   => (population'[i].state = Infected /\ population'[i].in_treatment = 0)]_vars

\* C3: an agent's state changes only Healthy -> Infected or Infected -> Recovered
\* or Dead; Infected never returns to Healthy, Recovered and Dead never change.
C3_StateMonotonicity ==
    [][\A i \in Rows :
          \/ population'[i].state = population[i].state
          \/ population[i].state = Healthy /\ population'[i].state = Infected
          \/ population[i].state = Infected /\ Resolved(population'[i].state)]_vars

\* an agent infected by an infect call (not at the start) has died, another has
\* recovered
C3_Witness ==
    /\ \E i \in Rows : population[i].state = Dead /\ population[i].infection_frame > 0
    /\ \E i \in Rows : population[i].state = Recovered

\* C4: after a recover_or_die call every agent that was Infected with its progress
\* at its threshold is Recovered or Dead and out of treatment, on its own row (the
\* rest of the row is that agent's), and every other row is as it was.
C4_WriteBack ==
    [][RecoverStep =>
          \A i \in Rows :
             IF population[i].state = Infected /\ ProgressReached(population[i], frame')
             THEN /\ Resolved(population'[i].state)
                  /\ population'[i] = [population[i] EXCEPT
                                          !.state = population'[i].state,
                                          !.in_treatment = 0]
             ELSE population'[i] = population[i]]_vars

\* two agents with the same infection frame and threshold resolved by the call at
\* the first frame their progress allows, one dead and one recovered
C4_Witness ==
    /\ last_call = "recover_or_die"
    /\ \E i, j \in Rows :
          /\ i # j
          /\ population[i].recovery_threshold = population[j].recovery_threshold
          /\ population[i].infection_frame = population[j].infection_frame
          /\ ProgressReached(population[i], frame)
          /\ ~ProgressReached(population[i], frame - 1)
          /\ population[i].state = Dead
          /\ population[j].state = Recovered

\* C5: in_treatment implies Infected; the flag is set only by an infect call on an
\* agent that call makes Infected, and is cleared by the recover_or_die call that
\* resolves the agent, and only then.
C5_TreatmentOnlyWhileInfected ==
    /\ \A i \in Rows : population[i].in_treatment = 1 => population[i].state = Infected
    /\ [][\A i \in Rows :
            /\ population'[i].in_treatment = 1 => population'[i].state = Infected
            /\ (population[i].in_treatment = 0 /\ population'[i].in_treatment = 1)
                  => (InfectStep /\ population[i].state = Healthy
                                 /\ population'[i].state = Infected)
            /\ (population[i].state = Infected /\ Resolved(population'[i].state))
                  => (RecoverStep /\ population'[i].in_treatment = 0)
            /\ (population[i].in_treatment = 1 /\ population'[i].in_treatment = 0)
                  => (RecoverStep /\ Resolved(population'[i].state))]_vars

\* an agent is in treatment while another, once routed and so once admitted, is
\* resolved and out of treatment
C5_Witness ==
    /\ \E i \in Rows : population[i].in_treatment = 1
    /\ \E j \in Rows : /\ Resolved(population[j].state)
                       /\ population[j].destination_index # 0
                       /\ population[j].in_treatment = 0

\* C6: a recover_or_die call at frame f resolves an Infected agent exactly when
\* max(0, (f - infection_frame - min) / (max - min)) >= recovery_threshold; with
\* recovery_duration = (5, 10), threshold 0.5 and infection_frame 0 the calls at
\* frames 0..7 leave the agent Infected and the call at frame 8 resolves it.
C6_ResolutionTiming ==
    [][RecoverStep =>
          \A i \in Rows :
             population[i].state = Infected =>
                /\ Resolved(population'[i].state) <=> ProgressReached(population[i], frame')
                /\ (/\ config.recovery_duration = <<5, 10>>
                    /\ population[i].recovery_threshold = <<5, 10>>
                    /\ population[i].infection_frame = 0)
                      => (Resolved(population'[i].state) <=> frame' >= 8)]_vars

\* the agent of the example has just been resolved by the call at frame 8
C6_Witness ==
    /\ last_call = "recover_or_die"
    /\ frame = 8
    /\ config.recovery_duration = <<5, 10>>
    /\ \E i \in Rows : /\ population[i].recovery_threshold = <<5, 10>>
                       /\ population[i].infection_frame = 0
                       /\ Resolved(population[i].state)
    /\ \E i \in Rows : population[i].state = Infected

\* C7: with infection_chance = 1 and healthcare_capacity >= the population size,
\* every Healthy agent with an eligible infectious agent strictly inside its box
\* ends the infect call Infected, infection_frame = frame, in treatment.
C7_CertainInfection ==
    [][(InfectStep /\ config.infection_chance = One
                   /\ config.healthcare_capacity >= PopSize)
          => \A i \in Rows :
                (/\ population[i].state = Healthy
                 /\ \E j \in Rows : EligibleSource(population, j, i))
                   => /\ population'[i].state = Infected
                      /\ population'[i].infection_frame = frame'
                      /\ population'[i].in_treatment = 1]_vars

\* the example: an infected agent at (0,0), a susceptible one at (1,1),
\* infection_range = 2, infection_chance = 1; the infect call at frame 1 infected
\* the second and admitted it
C7_Witness ==
    /\ last_call = "infect"
    /\ frame = 1
    /\ config.infection_chance = One
    /\ config.infection_range = 2
    /\ config.healthcare_capacity >= PopSize
    /\ population[0].x = 0 /\ population[0].y = 0
    /\ population[0].state = Infected /\ population[0].infection_frame = 0
    /\ population[1].x = 1 /\ population[1].y = 1
    /\ population[1].state = Infected /\ population[1].infection_frame = 1
    /\ population[1].in_treatment = 1

\* the mortality call recorded in the state, at another age
RiskAt(age) ==
    compute_mortality(age, mortality.mortality_chance, mortality.risk_age,
                      mortality.critical_age, mortality.critical_mortality_chance,
                      mortality.risk_increase)

\* C8: for risk_age < critical_age and mortality_chance <= critical_mortality_chance
\* the risk is non-decreasing from each age of [risk_age, critical_age] to the next,
\* in both curve modes (the quadratic mode with mortality_chance > 0, as its
\* docstring requires).
C8_RiskMonotone ==
    (/\ last_call = "compute_mortality"
     /\ mortality.risk_age < mortality.critical_age
     /\ mortality.risk_increase = "quadratic" => ValSign(mortality.mortality_chance) > 0
     /\ ValLE(mortality.mortality_chance, mortality.critical_mortality_chance)
     /\ mortality.risk_age <= mortality.age
     /\ mortality.age + 1 <= mortality.critical_age)
        => ValLE(mortality.risk, RiskAt(mortality.age + 1))

\* C9: for risk_age < critical_age the risk is exactly mortality_chance at every
\* age <= risk_age and exactly critical_mortality_chance at every age >=
\* critical_age, in both curve modes.
C9_RiskBoundary ==
    (last_call = "compute_mortality" /\ mortality.risk_age < mortality.critical_age)
        => /\ mortality.age <= mortality.risk_age
                => mortality.risk = mortality.mortality_chance
           /\ mortality.age >= mortality.critical_age
                => mortality.risk = mortality.critical_mortality_chance

\* the risk at risk_age itself, in the quadratic mode, with the two chances apart
C9_Witness ==
    /\ last_call = "compute_mortality"
    /\ mortality.risk_increase = "quadratic"
    /\ mortality.age = mortality.risk_age
    /\ mortality.age + 2 <= mortality.critical_age
    /\ ~ValEq(mortality.mortality_chance, mortality.critical_mortality_chance)
    /\ mortality.risk = mortality.mortality_chance

\* C10: the number of agents is constant and no agent's id, x, y, age or
\* recovery_threshold changes; an infect call changes rows (and their destination
\* rows) only of agents Healthy at its start.
C10_FieldsTouched ==
    [][/\ DOMAIN population' = DOMAIN population
       /\ \A i \in Rows :
             /\ population'[i].id = population[i].id
             /\ population'[i].x = population[i].x
             /\ population'[i].y = population[i].y
             /\ population'[i].age = population[i].age
             /\ population'[i].recovery_threshold = population[i].recovery_threshold
             /\ (InfectStep /\ population[i].state # Healthy)
                   => /\ population'[i] = population[i]
                      /\ destinations'[i] = destinations[i]]_vars

\* an infect call has infected, admitted and routed an agent next to an agent that
\* was Infected before
C10_Witness ==
    /\ last_call = "infect"
    /\ \E i, j \in Rows :
          /\ population[i].state = Infected
          /\ population[i].infection_frame = frame
          /\ frame > 0
          /\ population[i].in_treatment = 1
          /\ population[i].destination_index = LocationNo
          /\ population[i].wander_x # 0
          /\ destinations[i][0] # 0
          /\ population[j].state = Infected
          /\ population[j].infection_frame < frame
          /\ population[j].destination_index = 0

CorrectionStep == last_call' = "healthcare_infection_correction"

\* C11: healthcare_infection_correction with factor = 0, and with any factor > 0,
\* returns normally with every field of every worker unchanged, however many
\* times it is applied.
C11_CorrectionNoOp ==
    [][(CorrectionStep /\ ~RatLT(config'.healthcare_risk_factor, Zero))
          => (population' = population /\ raised' = "none")]_vars

\* a call with a factor above 0 has returned, after a call with factor 0 would
\* have: a healthy and a sick worker are as they were
C11_Witness ==
    /\ last_call = "healthcare_infection_correction"
    /\ RatLT(Zero, config.healthcare_risk_factor)
    /\ raised = "none"
    /\ \E i, j \in Rows : /\ population[i].state = Infected
                          /\ population[j].state = Healthy

\* C16: with factor < 0, healthcare_infection_correction returns normally, and the
\* only changes are workers that were Infected and are now Healthy, with no other
\* field changed.
C16_CureCompletes ==
    [][(CorrectionStep /\ RatLT(config'.healthcare_risk_factor, Zero))
          => /\ raised' = "none"
             /\ \A i \in Rows :
                   \/ population'[i] = population[i]
                   \/ /\ population[i].state = Infected
                      /\ population'[i] = [population[i] EXCEPT !.state = Healthy]]_vars

\* C12: destination_index changes only in an infect call, only on an agent that
\* call newly infects (so it is Infected when written), and only as go_to_location
\* writes it, together with the wander extents and the destination row;
\* recover_or_die never changes it.
C12_DestinationOnlyRouter ==
    [][\A i \in Rows :
          population'[i].destination_index # population[i].destination_index
             => /\ InfectStep
                /\ population[i].state = Healthy
                /\ population'[i].state = Infected
                /\ LET sent == go_to_location(
                                  [population[i] EXCEPT !.state = Infected,
                                                        !.infection_frame = frame',
                                                        !.in_treatment = 1],
                                  destinations[i], config.location_bounds,
                                  config.location_no)
                   IN  /\ population'[i] = sent.patient
                       /\ destinations'[i] = sent.destination]_vars

\* a recover_or_die call has resolved a routed agent, whose destination is still
\* set, while a routed agent is still Infected
C12_Witness ==
    /\ last_call = "recover_or_die"
    /\ \E i, j \in Rows :
          /\ population[i].state = Dead
          /\ population[i].destination_index = LocationNo
          /\ population[j].state = Infected
          /\ population[j].destination_index = LocationNo

\* C13: every agent an infect call changes from Healthy to Infected had, among the
\* agents Infected at call entry, one with no active destination (or any, when
\* traveling_infects) whose x and y differences to it are both strictly below
\* infection_range; exactly infection_range away is out of range, and an agent
\* infected during the call does not transmit in that call.
C13_NoInfectionWithoutSource ==
    [][InfectStep =>
          \A i \in Rows :
             (population[i].state = Healthy /\ population'[i].state = Infected)
                => \E j \in Rows : EligibleSource(population, j, i)]_vars

\* after an infect call an agent infected before it stands next to one the call
\* infected, and an agent exactly infection_range away from the first, and within
\* range of the second, is still Healthy
C13_Witness ==
    /\ last_call = "infect"
    /\ \E j, i, h \in Rows :
          /\ population[j].state = Infected /\ population[j].infection_frame < frame
          /\ population[j].destination_index = 0
          /\ population[i].state = Infected /\ population[i].infection_frame = frame
          /\ population[i].destination_index = 0
          /\ population[h].state = Healthy
          /\ Abs(population[h].x - population[j].x) = config.infection_range
          /\ Abs(population[h].x - population[i].x) < config.infection_range
          /\ Abs(population[h].y - population[i].y) < config.infection_range
          /\ \A k \in Rows : population[k].state = Infected => k \in {i, j}

\* the fields of a row, but for state and in_treatment
OtherFields(person) ==
    <<person.id, person.x, person.y, person.age, person.infection_frame,
      person.recovery_threshold, person.destination_index, person.wander_x,
      person.wander_y>>

\* C14: recover_or_die leaves every field unchanged for every agent not Infected at
\* call entry and for every Infected agent whose progress is below its threshold;
\* for a resolving agent it changes only state and in_treatment; the destinations
\* are not touched.
C14_RecoverFrameEffect ==
    [][RecoverStep =>
          /\ destinations' = destinations
          /\ \A i \in Rows :
                /\ population[i].state # Infected => population'[i] = population[i]
                /\ (population[i].state = Infected
                      /\ RatLT(RecoveryOdds(population[i], frame', config.recovery_duration),
                               population[i].recovery_threshold))
                     => population'[i] = population[i]
                /\ OtherFields(population'[i]) = OtherFields(population[i])]_vars

\* a recover_or_die call has resolved one agent in treatment and left another
\* Infected agent, in treatment and below its threshold, and a Healthy agent
C14_Witness ==
    /\ last_call = "recover_or_die"
    /\ \E i, j, h \in Rows :
          /\ Resolved(population[i].state)
          /\ ProgressReached(population[i], frame)
          /\ ~ProgressReached(population[i], frame - 1)
          /\ population[j].state = Infected
          /\ population[j].in_treatment = 1
          /\ ~ProgressReached(population[j], frame)
          /\ population[h].state = Healthy

\* the number of Infected agents
InfectedCount(pop) == Cardinality({i \in DOMAIN pop : pop[i].state = Infected})

\* C15: infect takes the sparse-infected branch exactly when the number of agents
\* Infected at call entry is less than half the population size, and the
\* dense-infected branch otherwise, for every population size, odd ones included.
C15_StrategySelection ==
    [][InfectStep =>
          IF 2 * InfectedCount(population) < Cardinality(DOMAIN population)
          THEN strategy' = "sparse"
          ELSE strategy' = "dense"]_vars

\* the number of agents infectious for row i at the entry of an infect call
SourceCount(pop, i) == Cardinality({j \in Rows : EligibleSource(pop, j, i)})

\* C17: when infect takes the dense branch, a Healthy agent with k >= 1 eligible
\* infectious agents in its box and infection_chance * k >= 1 is infected in that
\* call whatever the draw, and a Healthy agent with k = 0 stays Healthy.
C17_DenseSaturation ==
    [][(InfectStep /\ strategy' = "dense") =>
          \A i \in Rows :
             population[i].state = Healthy =>
                LET k == SourceCount(population, i)
                IN  /\ k = 0 => population'[i] = population[i]
                    /\ (k >= 1 /\ config.infection_chance[1] * k >= config.infection_chance[2])
                          => /\ population'[i].state = Infected
                             /\ population'[i].infection_frame = frame']_vars

\* a dense call with infection_chance 1/2 has infected an agent that had two
\* infectious agents in its box
C17_Witness ==
    /\ last_call = "infect"
    /\ strategy = "dense"
    /\ frame > 0
    /\ config.infection_chance = <<1, 2>>
    /\ \E i \in Rows :
          /\ population[i].state = Infected
          /\ population[i].infection_frame = frame
          /\ Cardinality({j \in Rows : /\ EligibleSource(population, j, i)
                                       /\ population[j].infection_frame < frame}) = 2

\* C18: over any sequence of infect and recover_or_die calls with a fixed
\* healthcare_capacity, starting with nobody in treatment, the number of agents in
\* treatment never exceeds healthcare_capacity + 1.
C18_TreatedBound == TreatedCount(population) <= config.healthcare_capacity + 1

\* at capacity 0 one infect call has admitted one agent and refused another it
\* infected after it
C18_Witness ==
    /\ last_call = "infect"
    /\ frame > 0
    /\ config.healthcare_capacity = 0
    /\ TreatedCount(population) = config.healthcare_capacity + 1
    /\ \E i, j \in Rows :
          /\ population[i].state = Infected /\ population[i].infection_frame = frame
          /\ population[i].in_treatment = 1
          /\ population[j].state = Infected /\ population[j].infection_frame = frame
          /\ population[j].in_treatment = 0

\* C19: with recover_or_die called once at every frame and recovery_min <
\* recovery_max, every agent infected at frame f with recovery_threshold in [0, 1)
\* is Recovered or Dead once the call at frame f + recovery_max has returned: after
\* a recover_or_die call no agent whose frame f + recovery_max has come is
\* Infected, so none stays Infected forever.
C19_BoundedResolution ==
    last_call = "recover_or_die" =>
       \A i \in Rows :
          (/\ population[i].state = Infected
           /\ RatLT(population[i].recovery_threshold, One)
           /\ config.recovery_duration[1] < config.recovery_duration[2])
             => frame < population[i].infection_frame + config.recovery_duration[2]

\* an agent infected by an infect call has been resolved by the call at its frame
\* f + recovery_max and could not have been resolved by an earlier one
C19_Witness ==
    /\ last_call = "recover_or_die"
    /\ \E i \in Rows :
          /\ Resolved(population[i].state)
          /\ population[i].infection_frame > 0
          /\ frame = population[i].infection_frame + config.recovery_duration[2]
          /\ ProgressReached(population[i], frame)
          /\ ~ProgressReached(population[i], frame - 1)

\* C20: in both branches infect routes a newly infected agent only if it admitted
\* that agent to treatment in the same step: every agent whose destination_index
\* an infect call sets is in treatment at the end of the call, and a newly infected
\* agent the gate refused keeps its destination, its wander extents and its
\* destination row, also with send_to_location and location_odds = 1.
C20_RoutingNeedsAdmission ==
    [][InfectStep =>
          \A i \in Rows :
             /\ population'[i].destination_index # population[i].destination_index
                   => population'[i].in_treatment = 1
             /\ (/\ population[i].state = Healthy
                 /\ population'[i].state = Infected
                 /\ population'[i].in_treatment = 0)
                   => /\ population'[i].destination_index = population[i].destination_index
                      /\ population'[i].wander_x = population[i].wander_x
                      /\ population'[i].wander_y = population[i].wander_y
                      /\ destinations'[i] = destinations[i]]_vars

\* with send_to_location and location_odds = 1, an infect call that took the
\* given branch has admitted and routed one agent and refused another, which has
\* no destination
RoutedAndRefused(branch) ==
    /\ last_call = "infect"
    /\ strategy = branch
    /\ frame > 0
    /\ config.send_to_location
    /\ config.location_odds = One
    /\ \E i, j \in Rows :
          /\ population[i].state = Infected /\ population[i].infection_frame = frame
          /\ population[i].in_treatment = 1
          /\ population[i].destination_index = config.location_no
          /\ population[j].state = Infected /\ population[j].infection_frame = frame
          /\ population[j].in_treatment = 0
          /\ population[j].destination_index = 0
          /\ destinations[j][0] = 0

C20_Witness == RoutedAndRefused("sparse")

====
